---------------------------- MODULE Spec2Model ----------------------------
(***************************************************************************)
(* Name-registration program (src/main.rs): the NameRecord wire format     *)
(* (borsh), process_instruction, register_name and resolve_name, run       *)
(* against one name account (the slot), the system program's               *)
(* create_account and the Rent and Clock sysvars.                          *)
(***************************************************************************)
EXTENDS Integers, Sequences, FiniteSets, TLC

(***************************************************************************)
(* Program constants.                                                      *)
(***************************************************************************)
MAX_NAME_LENGTH == 64

MAX_RECORD_SIZE == 256

\* Width in bytes of the fixed fields of NameRecord and of the borsh
\* length prefix of a String (u32).
PUBKEY_BYTES == 32

I64_BYTES == 8

U32_BYTES == 4

(***************************************************************************)
(* Bounds of the model.                                                    *)
(***************************************************************************)
\* Names of every length up to MaxShortName over NameBytes are enumerated.
MaxShortName == 1

\* Raw byte strings of every length up to MaxRawLen over RawBytes are decoded.
MaxRawLen == 3

(***************************************************************************)
(* Byte strings.                                                           *)
(***************************************************************************)
\* 'a', and the lead byte 0xC3, which alone is not valid UTF-8.
NameBytes == {97, 195}

\* U+00E9 in UTF-8.
EAcute == <<195, 169>>

RawBytes == {0, 1, 97}

Repeat(b, n) == [i \in 1..n |-> b]

SeqsUpTo(S, n) == UNION {[1..k -> S] : k \in 0..n}

Take(s, n) == SubSeq(s, 1, IF n < Len(s) THEN n ELSE Len(s))

Drop(s, n) == SubSeq(s, n + 1, Len(s))

(***************************************************************************)
(* String::from_utf8: the well-formed byte sequences of UTF-8.             *)
(***************************************************************************)
IsCont(b) == b >= 128 /\ b <= 191

\* The length of the character a lead byte starts; 0 for a byte that starts
\* none (a continuation byte, 0xC0, 0xC1, 0xF5 and above).
LeadLen(b) ==
    IF b <= 127 THEN 1
    ELSE IF b >= 194 /\ b <= 223 THEN 2
    ELSE IF b >= 224 /\ b <= 239 THEN 3
    ELSE IF b >= 240 /\ b <= 244 THEN 4
    ELSE 0

\* The byte after lead byte b: a continuation byte, in the narrower range
\* that rules out overlong forms, surrogates and values above U+10FFFF.
SecondOk(b, c) ==
    /\ IsCont(c)
    /\ (b = 224 => c >= 160)
    /\ (b = 237 => c <= 159)
    /\ (b = 240 => c >= 144)
    /\ (b = 244 => c <= 143)

\* Every lead byte is followed by its continuation bytes, and every other
\* byte is a continuation byte of the lead byte before it.
IsUtf8(s) ==
    \A i \in 1..Len(s) :
        LET b == s[i]
            L == LeadLen(b)
        IN  IF L > 0
            THEN /\ i + L - 1 <= Len(s)
                 /\ (L >= 2 => SecondOk(b, s[i + 1]))
                 /\ \A k \in 2..(L - 1) : IsCont(s[i + k])
            ELSE /\ IsCont(b)
                 /\ \E k \in 1..3 :
                      /\ i - k >= 1
                      /\ LeadLen(s[i - k]) > k
                      /\ \A m \in 1..(k - 1) : IsCont(s[i - m])

(***************************************************************************)
(* Integers of the wire format.  An i64 does not fit the model checker's   *)
(* integers, so the value hi * 2^48 + mid * 2^24 + lo is kept as its three *)
(* digits, hi signed (16 bits), mid and lo unsigned (24 bits each).        *)
(***************************************************************************)
I64(hi, mid, lo) == [hi |-> hi, mid |-> mid, lo |-> lo]

\* n.to_le_bytes(), the k low bytes of n in two's complement.
RECURSIVE LeBytes(_, _)
LeBytes(n, k) == IF k = 0 THEN <<>> ELSE <<n % 256>> \o LeBytes(n \div 256, k - 1)

\* The unsigned value of little-endian bytes (at most three of them here).
RECURSIVE FromLe(_)
FromLe(b) == IF b = <<>> THEN 0 ELSE b[1] + 256 * FromLe(Tail(b))

\* Faulty variant: the bytes in big-endian order.
I64ToLeBytesBE(t) == LeBytes(t.hi, 2) \o LeBytes(t.mid, 3) \o LeBytes(t.lo, 3)

I64ToLeBytes(t) == LeBytes(t.lo, 3) \o LeBytes(t.mid, 3) \o LeBytes(t.hi, 2)

\* Faulty variant: the bytes read in big-endian order.
I64FromBeBytes(b) ==
    LET top == FromLe(<<b[2], b[1]>>)
    IN  I64(IF top >= 32768 THEN top - 65536 ELSE top,
            FromLe(<<b[5], b[4], b[3]>>),
            FromLe(<<b[8], b[7], b[6]>>))

I64FromLeBytes(b) ==
    LET top == FromLe(SubSeq(b, 7, 8))
    IN  I64(IF top >= 32768 THEN top - 65536 ELSE top,
            FromLe(SubSeq(b, 4, 6)),
            FromLe(SubSeq(b, 1, 3)))

\* (len as u32).to_le_bytes()
U32ToLeBytes(n) == LeBytes(n, U32_BYTES)

\* Whether the u32 in b is at most n (n a buffer length).  A value with the
\* top bit set exceeds every length the model can hold.
U32AtMost(b, n) == b[4] < 128 /\ FromLe(b) <= n

(***************************************************************************)
(* NameRecord and its borsh encoding.                                      *)
(***************************************************************************)
NameRecord(name, owner, created_at) ==
    [name |-> name, owner |-> owner, created_at |-> created_at]

\* NameRecord::default()
DefaultRecord == NameRecord(<<>>, Repeat(0, PUBKEY_BYTES), I64(0, 0, 0))

\* The fields of a record in the order borsh writes them.
EncodeFields(r) ==
    << U32ToLeBytes(Len(r.name)), r.name, r.owner, I64ToLeBytes(r.created_at) >>

RECURSIVE Flatten(_)
Flatten(ss) == IF ss = <<>> THEN <<>> ELSE Head(ss) \o Flatten(Tail(ss))

\* record.serialize(&mut Vec): a Vec takes every byte.
Encode(r) == Flatten(EncodeFields(r))

\* record.serialize(&mut &mut buf[..]): one write_all per field into the
\* slice.  A write copies what fits; write_all fails when that is not the
\* whole field, and the fields after it are not written.
RECURSIVE WriteFields(_, _, _)
WriteFields(buf, pos, fields) ==
    IF fields = <<>> THEN [ok |-> TRUE, buf |-> buf, pos |-> pos]
    ELSE LET f == Head(fields)
             room == Len(buf) - pos
             amt == IF Len(f) < room THEN Len(f) ELSE room
             out == [i \in 1..Len(buf) |->
                        IF i > pos /\ i <= pos + amt THEN f[i - pos] ELSE buf[i]]
         IN  IF amt = Len(f)
             THEN WriteFields(out, pos + amt, Tail(fields))
             ELSE [ok |-> FALSE, buf |-> out, pos |-> pos + amt]

SerializeInto(buf, r) == WriteFields(buf, 0, EncodeFields(r))

DecodeFail == [ok |-> FALSE, rec |-> DefaultRecord, consumed |-> 0]

\* Faulty variant: a deserialize that demands the whole input be consumed
\* (try_from_slice).
DeserializeStrict(buf) ==
    IF Len(buf) < U32_BYTES \/ ~U32AtMost(Take(buf, U32_BYTES), Len(buf) - U32_BYTES)
    THEN DecodeFail
    ELSE LET n == FromLe(Take(buf, U32_BYTES))
             name == SubSeq(buf, U32_BYTES + 1, U32_BYTES + n)
             rest == Drop(buf, U32_BYTES + n)
         IN  IF ~IsUtf8(name) \/ Len(rest) # PUBKEY_BYTES + I64_BYTES
             THEN DecodeFail
             ELSE [ok |-> TRUE,
                   rec |-> NameRecord(name, Take(rest, PUBKEY_BYTES),
                              I64FromLeBytes(Drop(rest, PUBKEY_BYTES))),
                   consumed |-> Len(buf)]

\* NameRecord::deserialize(&mut &buf[..]): the u32 length, that many bytes
\* (which must be UTF-8), 32 bytes, 8 bytes, each read failing when the input
\* is shorter.  What follows the record is left unread.
Deserialize(buf) ==
    IF Len(buf) < U32_BYTES \/ ~U32AtMost(Take(buf, U32_BYTES), Len(buf) - U32_BYTES)
    THEN DecodeFail
    ELSE LET n == FromLe(Take(buf, U32_BYTES))
             name == SubSeq(buf, U32_BYTES + 1, U32_BYTES + n)
             rest == Drop(buf, U32_BYTES + n)
         IN  IF ~IsUtf8(name) \/ Len(rest) < PUBKEY_BYTES + I64_BYTES
             THEN DecodeFail
             ELSE [ok |-> TRUE,
                   rec |-> NameRecord(name, Take(rest, PUBKEY_BYTES),
                              I64FromLeBytes(SubSeq(rest, PUBKEY_BYTES + 1,
                                                    PUBKEY_BYTES + I64_BYTES))),
                   consumed |-> U32_BYTES + n + PUBKEY_BYTES + I64_BYTES]

(***************************************************************************)
(* The environment: payers, the name account, rent, the clock.             *)
(***************************************************************************)
Payers == {"P1", "P2"}

\* The payer's key: 32 bytes.
PubkeyOf(p) == IF p = "P1" THEN Repeat(17, PUBKEY_BYTES)
               ELSE [i \in 1..PUBKEY_BYTES |-> i]

\* Rent::minimum_balance with the cluster's default rent.
RentMinimumBalance(space) == (128 + space) * 6960

\* unix_timestamp values the Clock sysvar hands out: 1234567890 and -1.
ClockValues == {I64(0, 73, 9831122), I64(-1, 16777215, 16777215)}

Zeros(n) == [i \in 1..n |-> 0]

\* An account no one has created yet.
FreshAccount == [lamports |-> 0, data |-> <<>>, owner |-> "system"]

\* An account a client created for the program (zeroed data) without
\* calling the program.
ZeroedAccount == [lamports |-> RentMinimumBalance(MAX_RECORD_SIZE),
                  data |-> Zeros(MAX_RECORD_SIZE), owner |-> "program"]

\* Lengths of the long names: around MAX_NAME_LENGTH, and the first length
\* whose record no longer fits MAX_RECORD_SIZE.
LongLens == {MAX_NAME_LENGTH, MAX_NAME_LENGTH + 1,
             MAX_RECORD_SIZE - (U32_BYTES + PUBKEY_BYTES + I64_BYTES) + 1}

Names == SeqsUpTo(NameBytes, MaxShortName) \cup {EAcute}
             \cup {Repeat(97, n) : n \in LongLens}

\* instruction_data: empty, or an opcode byte and a payload.
Instructions ==
    {<<>>} \cup {<<0>> \o nm : nm \in Names}
           \cup {<<1>>, <<1, 97>>, <<2>>}

\* How many accounts the caller passes.
AccountCounts == {2, 3}

Invocations == {1, 2}

\* The payer whose key is the first account of invocation i.
PayerOf(i) == IF i = 1 THEN "P1" ELSE "P2"

VARIABLES
    slot,        \* the name account: lamports, data, owner
    lamports,    \* each payer's balance
    inv,         \* each invocation of process_instruction
    committed,   \* the register_name calls that returned Ok: name, payer, time
    cPhase,      \* codec runs: where the run is
    cRec,        \* codec runs: the record encoded
    cBuf,        \* codec runs: the bytes
    cDec,        \* codec runs: the result of deserialize
    cFrom        \* codec runs: how the bytes were made

vars == <<slot, lamports, inv, committed, cPhase, cRec, cBuf, cDec, cFrom>>

progVars == <<slot, lamports, inv, committed>>

codecVars == <<cPhase, cRec, cBuf, cDec, cFrom>>

\* An invocation: its inputs (data, accounts, payer), its position (pc), the
\* locals of register_name (name, now), what it returned (result) and what
\* it did: accounts taken from the iterator, the steps run, the answer of
\* create_account, the log lines.  fresh and funded record, for an
\* invocation about to call create_account, whether the slot was unallocated
\* and the payer held the rent when the invocation began.
Idle == [pc |-> "idle", data |-> <<>>, accounts |-> <<>>, payer |-> "P1",
         name |-> <<>>, result |-> "none", accountsRead |-> 0, trace |-> <<>>,
         allocResult |-> "none", now |-> I64(0, 0, 0), logs |-> <<>>,
         fresh |-> FALSE, funded |-> FALSE]

Finish(s, res) == [s EXCEPT !.pc = "done", !.result = res]

Step(s, what) == [s EXCEPT !.trace = Append(@, what)]

(***************************************************************************)
(* process_instruction                                                     *)
(***************************************************************************)
\* Faulty variant: the accounts taken before the empty check.
DispatchAccountsFirst(s) ==
    LET got == IF Len(s.accounts) < 3 THEN Len(s.accounts) ELSE 3
        t == [s EXCEPT !.accountsRead = got]
    IN  IF Len(s.accounts) < 3 THEN Finish(t, "NotEnoughAccountKeys")
        ELSE IF s.data = <<>> THEN Finish(t, "InvalidInstructionData")
        ELSE IF s.data[1] = 0 THEN [t EXCEPT !.pc = "register", !.name = Tail(s.data)]
        ELSE IF s.data[1] = 1 THEN [t EXCEPT !.pc = "resolve", !.name = Tail(s.data)]
        ELSE Finish(t, "InvalidInstructionData")

\* The state of an invocation after process_instruction has routed it.
Dispatch(s) ==
    IF s.data = <<>> THEN Finish(s, "InvalidInstructionData")
    ELSE LET got == IF Len(s.accounts) < 3 THEN Len(s.accounts) ELSE 3
             t == [s EXCEPT !.accountsRead = got, !.name = Tail(s.data)]
         IN  IF Len(s.accounts) < 3 THEN Finish(t, "NotEnoughAccountKeys")
             ELSE IF s.data[1] = 0 THEN [t EXCEPT !.pc = "register"]
             ELSE IF s.data[1] = 1 THEN [t EXCEPT !.pc = "resolve"]
             ELSE Finish(t, "InvalidInstructionData")

(***************************************************************************)
(* register_name.  Its steps up to the create_account call touch nothing   *)
(* shared and are one step of the model with process_instruction; so are   *)
(* the clock read, the write and the log after the call.                   *)
(***************************************************************************)
\* Faulty variants: no upper bound on the length; no UTF-8 check.
NameLengthOkNoMax(name_data) == name_data # <<>>

\* Line 73.
NameLengthOk(name_data) == name_data # <<>> /\ Len(name_data) <= MAX_NAME_LENGTH

NameUtf8OkAlways(name_data) == TRUE

\* Lines 78-79.
NameUtf8Ok(name_data) == IsUtf8(name_data)

\* Lines 72-79: the checks of the name.
RegisterValidate(s) ==
    IF s.pc # "register" THEN s
    ELSE IF NameLengthOk(s.name) /\ NameUtf8Ok(s.name)
         THEN [Step(s, "validate") EXCEPT !.pc = "allocate"]
         ELSE Finish(Step(s, "validate"), "InvalidInstructionData")

ProcessInstruction(i) ==
    /\ inv[i].pc \in {"idle", "done"}
    /\ \E d \in Instructions, n \in AccountCounts :
         LET s == RegisterValidate(
                    Dispatch([Idle EXCEPT !.data = d, !.payer = PayerOf(i),
                      !.accounts = Take(<<PayerOf(i), "name_account",
                                          "system_program">>, n)]))
         IN  inv' = [inv EXCEPT ![i] =
                       IF s.pc = "allocate"
                       THEN [s EXCEPT !.fresh = (slot = FreshAccount),
                                      !.funded = (lamports[PayerOf(i)] >=
                                          RentMinimumBalance(MAX_RECORD_SIZE))]
                       ELSE s]
    /\ UNCHANGED <<slot, lamports, committed, codecVars>>

\* Faulty variant: an allocator that does not reject an account in use.
CreateAccountResultNoInUse(acct, balance, rent) ==
    IF balance < rent THEN "InsufficientFunds" ELSE "Ok"

\* system_instruction::create_account as the system program runs it.
CreateAccountResult(acct, balance, rent) ==
    IF acct.lamports > 0 \/ acct.data # <<>> \/ acct.owner # "system"
    THEN "AccountAlreadyInUse"
    ELSE IF balance < rent THEN "InsufficientFunds"
    ELSE "Ok"

\* Faulty variants: the error of create_account ignored; the call retried.
AfterAllocateIgnoringError(s, res) ==
    [s EXCEPT !.allocResult = res, !.pc = "write"]

AfterAllocateRetrying(s, res) ==
    IF res = "Ok" THEN [s EXCEPT !.allocResult = res, !.pc = "write"]
    ELSE [s EXCEPT !.allocResult = res]

\* The ? after invoke(): an error of create_account is returned at once.
AfterAllocate(s, res) ==
    IF res = "Ok" THEN [s EXCEPT !.allocResult = res, !.pc = "write"]
    ELSE Finish([s EXCEPT !.allocResult = res], res)

\* Lines 81-96: the rent query and the create_account call.
RegisterAllocate(i) ==
    /\ inv[i].pc = "allocate"
    /\ LET s == inv[i]
           space == MAX_RECORD_SIZE
           rent_lamports == RentMinimumBalance(space)
           res == CreateAccountResult(slot, lamports[s.payer], rent_lamports)
           t == Step(Step(s, "rent"), "allocate")
       IN  /\ inv' = [inv EXCEPT ![i] = AfterAllocate(t, res)]
           /\ IF res = "Ok"
              THEN /\ slot' = [lamports |-> rent_lamports, data |-> Zeros(space),
                               owner |-> "program"]
                   /\ lamports' = [lamports EXCEPT ![s.payer] = @ - rent_lamports]
              ELSE UNCHANGED <<slot, lamports>>
    /\ UNCHANGED <<committed, codecVars>>

\* The record register_name builds.
RecordOf(s) == NameRecord(s.name, PubkeyOf(s.payer), s.now)

\* Lines 98-109: the clock read, the record, the write into the account's
\* data, the log.
RegisterWrite(i) ==
    /\ inv[i].pc = "write"
    /\ \E now \in ClockValues :
         LET s == [Step(inv[i], "clock") EXCEPT !.now = now]
             w == SerializeInto(slot.data, RecordOf(s))
             t == Step(s, "write")
         IN  /\ slot' = [slot EXCEPT !.data = w.buf]
             /\ IF w.ok
                THEN /\ inv' = [inv EXCEPT ![i] =
                                  Finish([Step(t, "log") EXCEPT !.logs =
                                            << <<"Registered name", s.name>> >>], "Ok")]
                     /\ committed' = Append(committed,
                            [name |-> s.name, payer |-> s.payer, now |-> s.now])
                ELSE /\ inv' = [inv EXCEPT ![i] = Finish(t, "BorshIoError")]
                     /\ UNCHANGED committed
    /\ UNCHANGED <<lamports, codecVars>>

(***************************************************************************)
(* resolve_name                                                            *)
(***************************************************************************)
ResolveName(i) ==
    /\ inv[i].pc = "resolve"
    /\ LET d == Deserialize(slot.data)
       IN  inv' = [inv EXCEPT ![i] =
                     IF d.ok
                     THEN Finish([Step(@, "deserialize") EXCEPT !.logs =
                                    << <<"Name", d.rec.name>>,
                                       <<"Owner", d.rec.owner>>,
                                       <<"Created at", d.rec.created_at>> >>], "Ok")
                     ELSE Finish(Step(@, "deserialize"), "BorshIoError")]
    /\ UNCHANGED <<slot, lamports, committed, codecVars>>

CodecIdle ==
    /\ cPhase = "off"
    /\ cRec = DefaultRecord
    /\ cBuf = <<>>
    /\ cDec = DecodeFail
    /\ cFrom = "none"

Init ==
    /\ slot \in {FreshAccount, ZeroedAccount}
    /\ lamports \in [Payers -> {0, RentMinimumBalance(MAX_RECORD_SIZE)}]
    /\ inv = [i \in Invocations |-> Idle]
    /\ committed = <<>>
    /\ CodecIdle

Next ==
    \E i \in Invocations :
        \/ ProcessInstruction(i)
        \/ RegisterAllocate(i)
        \/ RegisterWrite(i)
        \/ ResolveName(i)

Spec == Init /\ [][Next]_vars

(***************************************************************************)
(* The codec alone, as the tests run it: a record is serialized into a     *)
(* Vec and the bytes deserialized.  The bytes may first be cut short, have *)
(* one byte overwritten, or be followed by more bytes, as they are in the  *)
(* account's data; byte strings that are no record's encoding are decoded  *)
(* too.                                                                    *)
(***************************************************************************)
\* A String holds UTF-8 only, of any length.
CodecNames == {nm \in Names : IsUtf8(nm)}

\* 1234567890, -1, i64::MIN, i64::MAX
CodecTimes == ClockValues \cup {I64(-32768, 0, 0), I64(32767, 16777215, 16777215)}

CodecRecords ==
    {NameRecord(nm, PubkeyOf(p), t) : nm \in CodecNames, p \in Payers, t \in CodecTimes}

\* Byte strings that came from no record: short ones, and all-zero ones
\* around the length of the smallest record and of the account's data.
RawInputs ==
    SeqsUpTo(RawBytes, MaxRawLen)
      \cup {Zeros(n) : n \in {U32_BYTES + PUBKEY_BYTES + I64_BYTES - 1,
                              U32_BYTES + PUBKEY_BYTES + I64_BYTES,
                              MAX_RECORD_SIZE}}

\* Values written over one byte of an encoding.
Overwrites == {0, 128, 255}

CodecInit ==
    /\ slot = FreshAccount
    /\ lamports = [p \in Payers |-> 0]
    /\ inv = [i \in Invocations |-> Idle]
    /\ committed = <<>>
    /\ cDec = DecodeFail
    /\ \/ /\ cPhase = "record"
          /\ cRec \in CodecRecords
          /\ cBuf = <<>>
          /\ cFrom = "none"
       \/ /\ cPhase = "bytes"
          /\ cRec = DefaultRecord
          /\ cBuf \in RawInputs
          /\ cFrom = "raw"

\* record.serialize(&mut serialized)
CodecEncode ==
    /\ cPhase = "record"
    /\ cPhase' = "bytes"
    /\ cBuf' = Encode(cRec)
    /\ cFrom' = "encoded"
    /\ UNCHANGED <<cRec, cDec, progVars>>

\* The encoding cut short.
CodecTruncate ==
    /\ cPhase = "bytes" /\ cFrom = "encoded"
    /\ \E k \in 0..(Len(cBuf) - 1) : cBuf' = Take(cBuf, k)
    /\ cFrom' = "truncated"
    /\ UNCHANGED <<cPhase, cRec, cDec, progVars>>

\* One byte of the length prefix or of the name overwritten.
CodecOverwrite ==
    /\ cPhase = "bytes" /\ cFrom = "encoded"
    /\ \E k \in 1..(U32_BYTES + Len(cRec.name)), b \in Overwrites :
         /\ cBuf[k] # b
         /\ cBuf' = [cBuf EXCEPT ![k] = b]
    /\ cFrom' = "overwritten"
    /\ UNCHANGED <<cPhase, cRec, cDec, progVars>>

\* The encoding followed by more bytes: one byte, or the zeros that fill the
\* account's data.
CodecExtend ==
    /\ cPhase = "bytes" /\ cFrom = "encoded"
    /\ \/ \E b \in RawBytes : cBuf' = Append(cBuf, b)
       \/ /\ Len(cBuf) < MAX_RECORD_SIZE
          /\ cBuf' = cBuf \o Zeros(MAX_RECORD_SIZE - Len(cBuf))
    /\ cFrom' = "extended"
    /\ UNCHANGED <<cPhase, cRec, cDec, progVars>>

\* NameRecord::deserialize(&mut &serialized[..])
CodecDecode ==
    /\ cPhase = "bytes"
    /\ cPhase' = "decoded"
    /\ cDec' = Deserialize(cBuf)
    /\ UNCHANGED <<cRec, cBuf, cFrom, progVars>>

CodecNext ==
    \/ CodecEncode
    \/ CodecTruncate
    \/ CodecOverwrite
    \/ CodecExtend
    \/ CodecDecode

SpecCodec == CodecInit /\ [][CodecNext]_vars

(***************************************************************************)
(* The properties.                                                         *)
(***************************************************************************)
Done(s) == s.pc = "done"

\* The invocation was routed to register_name, to resolve_name.
IsRegister(s) == s.data # <<>> /\ s.data[1] = 0 /\ Len(s.accounts) >= 3

IsResolve(s) == s.data # <<>> /\ s.data[1] = 1 /\ Len(s.accounts) >= 3

\* A name a record may hold: 1 to 64 bytes of UTF-8.
ValidName(nm) == Len(nm) >= 1 /\ Len(nm) <= 64 /\ IsUtf8(nm)

AllocationFailed == {"AccountAlreadyInUse", "InsufficientFunds"}

RegisterSteps == <<"validate", "rent", "allocate", "clock", "write", "log">>

\* What resolve_name logs of the record {name, owner: payer's key, created_at}.
LogLines(name, payer, now) ==
    << <<"Name", name>>, <<"Owner", PubkeyOf(payer)>>, <<"Created at", now>> >>

\* The account's data holding the record {name, owner: payer's key,
\* created_at} from offset 0 and zeros after it.
SlotHolding(name, payer, now) ==
    LET e == U32ToLeBytes(Len(name)) \o name \o PubkeyOf(payer) \o I64ToLeBytes(now)
    IN  /\ Len(slot.data) = MAX_RECORD_SIZE
        /\ Take(slot.data, Len(e)) = e
        /\ \A k \in (Len(e) + 1)..MAX_RECORD_SIZE : slot.data[k] = 0

\* C1: a record with a name of 1..=64 bytes, any owner and any created_at,
\* serialized and then deserialized, decodes successfully to a record equal
\* to it in name, owner and created_at.
C1_RoundTrip ==
    (cPhase = "decoded" /\ cFrom = "encoded" /\ ValidName(cRec.name))
        => /\ cDec.ok
           /\ cDec.rec.name = cRec.name
           /\ cDec.rec.owner = cRec.owner
           /\ cDec.rec.created_at = cRec.created_at

C1_Witness ==
    /\ cPhase = "decoded" /\ cFrom = "encoded"
    /\ Len(cRec.name) = MAX_NAME_LENGTH
    /\ cRec.created_at = I64(0, 73, 9831122)
    /\ cRec.owner = PubkeyOf("P2")
    /\ cDec.ok /\ cDec.rec = cRec

\* C2: a register_name whose name is empty, longer than 64 bytes or not
\* UTF-8 returns InvalidInstructionData having run nothing but the
\* validation (no rent query, no create_account, no clock read, no write,
\* no log), and the step leaves the slot, the balances and the registered
\* records as they were.
C2_InvalidNameRejected ==
    [][\A i \in Invocations :
         (inv'[i] # inv[i] /\ IsRegister(inv'[i]) /\ ~ValidName(Tail(inv'[i].data)))
           => /\ Done(inv'[i])
              /\ inv'[i].result = "InvalidInstructionData"
              /\ inv'[i].trace = <<"validate">>
              /\ inv'[i].allocResult = "none"
              /\ inv'[i].logs = <<>>
              /\ slot' = slot
              /\ lamports' = lamports
              /\ committed' = committed]_vars

C2_Witness ==
    /\ Done(inv[1]) /\ IsRegister(inv[1])
    /\ Len(inv[1].name) = MAX_NAME_LENGTH + 1
    /\ inv[1].result = "InvalidInstructionData"
    /\ Done(inv[2]) /\ IsRegister(inv[2])
    /\ inv[2].name = <<195>>
    /\ inv[2].result = "InvalidInstructionData"
    /\ slot = FreshAccount

\* C3: once a register_name(name, payer P) has returned Ok at time t, a
\* resolve_name on the slot returns Ok and reports exactly name, P's key
\* and t.
C3_ResolveAfterRegister ==
    [][\A i \in Invocations :
         (inv[i].pc = "resolve" /\ Done(inv'[i]) /\ committed # <<>>)
           => /\ inv'[i].result = "Ok"
              /\ inv'[i].logs = LogLines(committed[1].name, committed[1].payer,
                                         committed[1].now)]_vars

C3_Witness ==
    /\ committed # <<>>
    /\ committed[1].payer = "P2"
    /\ Len(committed[1].name) = MAX_NAME_LENGTH
    /\ Done(inv[1]) /\ IsResolve(inv[1]) /\ inv[1].result = "Ok"
    /\ inv[1].logs = LogLines(committed[1].name, "P2", committed[1].now)

\* C4: a resolve_name on a slot no register_name has written (empty data,
\* or all-zero data) returns the codec's error.
C4_ResolveUnwrittenFails ==
    \A i \in Invocations :
        (Done(inv[i]) /\ IsResolve(inv[i]) /\ committed = <<>>)
            => inv[i].result = "BorshIoError"

\* C5 as stated: an empty instruction, or one whose opcode is neither 0 nor
\* 1, returns InvalidInstructionData and no account is read.
C5_RejectedBeforeAccounts ==
    \A i \in Invocations :
        (Done(inv[i]) /\ (inv[i].data = <<>> \/ inv[i].data[1] \notin {0, 1}))
            => inv[i].result = "InvalidInstructionData" /\ inv[i].accountsRead = 0

\* C5, amended: an empty instruction returns InvalidInstructionData and no
\* account is read, however many accounts were passed; an instruction whose
\* opcode is neither 0 nor 1 returns InvalidInstructionData after the three
\* accounts were read, and NotEnoughAccountKeys when fewer than three were
\* passed.
C5_Dispatch ==
    \A i \in Invocations :
        Done(inv[i]) =>
            /\ inv[i].data = <<>> =>
                 inv[i].result = "InvalidInstructionData" /\ inv[i].accountsRead = 0
            /\ (inv[i].data # <<>> /\ inv[i].data[1] \notin {0, 1}) =>
                 IF Len(inv[i].accounts) >= 3
                 THEN inv[i].result = "InvalidInstructionData" /\ inv[i].accountsRead = 3
                 ELSE inv[i].result = "NotEnoughAccountKeys"

C5_Witness ==
    /\ Done(inv[1]) /\ inv[1].data = <<>> /\ Len(inv[1].accounts) = 2
    /\ inv[1].result = "InvalidInstructionData" /\ inv[1].accountsRead = 0
    /\ Done(inv[2]) /\ inv[2].data = <<2>> /\ Len(inv[2].accounts) = 2
    /\ inv[2].result = "NotEnoughAccountKeys"

\* Both invocations are register_name calls with valid names that began
\* while the slot was unallocated, each with a payer holding the rent, and
\* both have returned.
RaceOver ==
    \A i \in Invocations :
        /\ Done(inv[i]) /\ IsRegister(inv[i]) /\ ValidName(Tail(inv[i].data))
        /\ inv[i].fresh /\ inv[i].funded

C7_Immutable == [][committed # <<>> => slot'.data = slot.data]_vars

C7_Witness ==
    /\ committed # <<>>
    /\ SlotHolding(committed[1].name, committed[1].payer, committed[1].now)
    /\ Done(inv[1]) /\ IsRegister(inv[1]) /\ ~inv[1].fresh
    /\ inv[1].result = "AccountAlreadyInUse"
    /\ Done(inv[2]) /\ IsResolve(inv[2]) /\ inv[2].result = "Ok"
    /\ inv[2].logs[1] = <<"Name", committed[1].name>>

\* C8 as stated: a byte string that decodes re-encodes to itself.
C8_ReencodesIdentically ==
    (cPhase = "decoded" /\ cDec.ok) => Encode(cDec.rec) = cBuf

\* C8, amended: a byte string that decodes holds, in the bytes the decoder
\* consumed (its leading bytes), exactly the encoding of the record decoded;
\* the bytes after them are ignored.
C8_ReencodesConsumed ==
    (cPhase = "decoded" /\ cDec.ok)
        => /\ cDec.consumed <= Len(cBuf)
           /\ Encode(cDec.rec) = Take(cBuf, cDec.consumed)

C8_Witness ==
    /\ cPhase = "decoded" /\ cDec.ok
    /\ cFrom = "extended"
    /\ Len(cBuf) = MAX_RECORD_SIZE
    /\ cDec.consumed < Len(cBuf)
    /\ cDec.rec.created_at.hi < 0
    /\ Encode(cDec.rec) = Take(cBuf, cDec.consumed)

\* C9: the record of a name that passed validation encodes to at most
\* MAX_RECORD_SIZE bytes, and no register_name returns the codec's error.
C9_SizeBound ==
    \A i \in Invocations :
        /\ (IsRegister(inv[i]) /\ "validate" \in {inv[i].trace[k] : k \in 1..Len(inv[i].trace)}
              /\ inv[i].result # "InvalidInstructionData")
             => Len(Encode(NameRecord(inv[i].name, PubkeyOf(inv[i].payer), inv[i].now)))
                  <= MAX_RECORD_SIZE
        /\ IsRegister(inv[i]) => inv[i].result # "BorshIoError"

C9_Witness ==
    \E i \in Invocations :
        /\ Done(inv[i]) /\ IsRegister(inv[i]) /\ inv[i].result = "Ok"
        /\ Len(inv[i].name) = MAX_NAME_LENGTH
        /\ Len(Encode(NameRecord(inv[i].name, PubkeyOf(inv[i].payer), inv[i].now))) = 108
        /\ SlotHolding(inv[i].name, inv[i].payer, inv[i].now)

\* C10: the steps of a register_name are a prefix of validate, rent query,
\* create_account, clock read, write, log (so at most one create_account);
\* when create_account is rejected the call has returned that error with
\* no clock read, no write and no log, and the step that got the rejection
\* left the slot and the balances as they were.
C10_FailFast ==
    [][\A i \in Invocations :
         IsRegister(inv'[i]) =>
           /\ inv'[i].trace = Take(RegisterSteps, Len(inv'[i].trace))
           /\ inv'[i].allocResult \in AllocationFailed =>
                /\ Done(inv'[i])
                /\ inv'[i].result = inv'[i].allocResult
                /\ inv'[i].trace = <<"validate", "rent", "allocate">>
                /\ inv'[i].logs = <<>>
           /\ (inv[i].pc = "allocate" /\ inv'[i].allocResult \in AllocationFailed) =>
                slot' = slot /\ lamports' = lamports]_vars

C10_Witness ==
    /\ Done(inv[1]) /\ IsRegister(inv[1])
    /\ inv[1].result = "InsufficientFunds"
    /\ inv[1].trace = <<"validate", "rent", "allocate">>
    /\ Done(inv[2]) /\ IsRegister(inv[2])
    /\ inv[2].result = "AccountAlreadyInUse"
    /\ inv[2].trace = <<"validate", "rent", "allocate">>
    /\ Done(inv[2]) /\ inv[2].logs = <<>>

=============================================================================
